---- MODULE Spec2Model ----
(***************************************************************************)
(* State-machine model of the engineering-intelligence client:             *)
(*   - services/geminiService.ts : solveEngineeringProblem, extractBOM     *)
(*   - the App component (two variants, identical handlers):               *)
(*     handleSolve, handleGenerateBOM, toggleLanguage, the history entry   *)
(*     onClick, the form inputs.                                           *)
(* A handler that awaits a network call is two steps: the part before the  *)
(* await (which issues the call and captures the render's values in its    *)
(* closure) and the continuation that runs when the call settles.          *)
(***************************************************************************)
EXTENDS Integers, Sequences, FiniteSets, TLC

(***************************************************************************)
(* JavaScript values.  A value whose static type is a union (string|null,  *)
(* object|undefined, any) is tagged, so that values of different JS types  *)
(* can be compared.                                                        *)
(***************************************************************************)
null == [null |-> TRUE]
undefined == [undefined |-> TRUE]
Str(s) == [str |-> s]
Num(n) == [num |-> n]
Arr(s) == [arr |-> s]

\* JS truthiness: undefined, null, "" and 0 are falsy; objects and arrays
\* (even empty ones) are truthy.
Falsy(v) == v \in {undefined, null, Str(""), Num(0)}

\* a || b
OrElse(a, b) == IF Falsy(a) THEN b ELSE a

\* obj.key : undefined when the object has no such property
Get(obj, key) == IF key \in DOMAIN obj THEN obj[key] ELSE undefined

\* { ...a, ...b } : the properties of b override those of a
Spread(a, b) ==
    [k \in (DOMAIN a) \cup (DOMAIN b) |-> IF k \in DOMAIN b THEN b[k] ELSE a[k]]

\* {} : the object without properties
EmptyObject == [k \in {} |-> undefined]

\* String.prototype.trim
WhiteSpace == {" ", "\t", "\n"}
RECURSIVE TrimStart(_)
TrimStart(s) ==
    IF Len(s) > 0 /\ SubSeq(s, 1, 1) \in WhiteSpace
    THEN TrimStart(SubSeq(s, 2, Len(s)))
    ELSE s
RECURSIVE TrimEnd(_)
TrimEnd(s) ==
    IF Len(s) > 0 /\ SubSeq(s, Len(s), Len(s)) \in WhiteSpace
    THEN TrimEnd(SubSeq(s, 1, Len(s) - 1))
    ELSE s
Trim(s) == TrimEnd(TrimStart(s))

(***************************************************************************)
(* Bounds of the model.                                                    *)
(***************************************************************************)
\* records the history may come to hold: the user starts no solve that could
\* add one more
MaxHistory == 3
\* last value of the millisecond clock, which starts at 1
MaxClock == 4

(***************************************************************************)
(* The completion service.  ai.models.generateContent either throws or     *)
(* returns a response whose text is undefined or one of the texts below.   *)
(***************************************************************************)
Thrown == [thrown |-> TRUE]
Response(text) == [text |-> text]

TextInvalid == "{not valid json"
TextEmptyObject == "{}"
TextSolution ==
    "{\"analysis\": \"replace seal\", \"steps\": [\"isolate\"], \"variables\": {}, \"confidence\": 1}"
TextSolutionEcho ==
    "{\"analysis\": \"rewind coil\", \"query\": \"other\", \"field\": \"Civil\"}"
TextSolutionOverconfident ==
    "{\"analysis\": \"replace seal\", \"steps\": [\"isolate\"], \"variables\": {}, \"confidence\": 7}"
TextBomEmpty == "{\"bom\": []}"
TextBomOne == "{\"bom\": [{\"itemName\": \"seal\", \"priority\": \"High\"}]}"

\* JSON.parse on the fixture texts: the decoded value, or a SyntaxError.
JSONValid(text) ==
    text \in {TextEmptyObject, TextSolution, TextSolutionEcho, TextSolutionOverconfident,
              TextBomEmpty, TextBomOne}
JSONParse(text) ==
    CASE text = TextEmptyObject -> EmptyObject
      [] text = TextSolution ->
            [analysis |-> Str("replace seal"), steps |-> Arr(<<Str("isolate")>>),
             variables |-> EmptyObject, confidence |-> Num(1)]
      [] text = TextSolutionEcho ->
            [analysis |-> Str("rewind coil"), query |-> Str("other"),
             field |-> Str("Civil")]
      [] text = TextSolutionOverconfident ->
            [analysis |-> Str("replace seal"), steps |-> Arr(<<Str("isolate")>>),
             variables |-> EmptyObject, confidence |-> Num(7)]
      [] text = TextBomEmpty -> [bom |-> Arr(<< >>)]
      [] text = TextBomOne ->
            [bom |-> Arr(<<[itemName |-> Str("seal"), priority |-> Str("High")]>>)]

\* promise results
Fulfilled(v) == [ok |-> TRUE, value |-> v]
Rejected(m) == [ok |-> FALSE, message |-> m]

\* the messages of the Error objects (without the leading warning sign of the
\* two connection messages)
MsgSolveCorrupted ==
    "Controller link failure: The diagnostic data returned was corrupted. Please re-run the assessment."
MsgSolveConnection ==
    "CONNECTION ERROR: The AI is currently overloaded or the internet is unstable. Please wait 10 seconds and try your request again."
MsgBomParse == "Failed to parse BOM data."
MsgBomConnection == "CONNECTION ERROR: Failed to generate Bill of Materials."
MsgSolveFallback == "Operational disruption. Could not connect to Controller."
MsgBomFallback == "BOM Extraction failed."

\* try { ... } catch { throw new Error(m) } : whatever the block throws, the
\* caller sees the error the catch clause throws.
CatchRethrow(r, m) == IF r.ok THEN r ELSE Rejected(m)

\* geminiService.ts 74-79: the inner try of solveEngineeringProblem
SolveDecode(response) ==
    LET text == OrElse(response.text, Str(TextEmptyObject)).str
    IN  CatchRethrow(IF JSONValid(text) THEN Fulfilled(JSONParse(text))
                     ELSE Rejected("SyntaxError"),
                     MsgSolveCorrupted)

solveEngineeringProblemSwallowing(outcome) ==
    IF outcome = Thrown THEN Fulfilled(EmptyObject) ELSE SolveDecode(outcome)

\* geminiService.ts 61-84: the outer try wraps the call AND the inner try
solveEngineeringProblem(outcome) ==
    CatchRethrow(IF outcome = Thrown THEN Rejected("ApiError")
                 ELSE SolveDecode(outcome),
                 MsgSolveConnection)

\* geminiService.ts 122-127: the inner try of extractBOM
BomDecode(response) ==
    LET text == OrElse(response.text, Str(TextBomEmpty)).str
    IN  CatchRethrow(IF JSONValid(text) THEN Fulfilled(Get(JSONParse(text), "bom"))
                     ELSE Rejected("SyntaxError"),
                     MsgBomParse)

extractBOMDefaulting(outcome) ==
    IF outcome = Thrown THEN Fulfilled(Arr(<< >>))
    ELSE IF BomDecode(outcome).ok THEN BomDecode(outcome) ELSE Fulfilled(Arr(<< >>))

\* geminiService.ts 112-130
extractBOM(outcome) ==
    CatchRethrow(IF outcome = Thrown THEN Rejected("ApiError")
                 ELSE BomDecode(outcome),
                 MsgBomConnection)

(***************************************************************************)
(* isSafetyCritical, in the two variants of the App component.  Strings    *)
(* are over ASCII here; the em dash (U+2014) of a safety text is written   *)
(* as EmDash, a character that, like it, is no letter, no white space and  *)
(* in neither variant's punctuation class.                                 *)
(***************************************************************************)
EmDash == "~"

UpperCaseLetters == "ABCDEFGHIJKLMNOPQRSTUVWXYZ"
LowerCaseLetters == "abcdefghijklmnopqrstuvwxyz"

\* the position of the character c in the string s, 0 when it is not in s
CharIndex(s, c) ==
    IF \E k \in 1..Len(s) : SubSeq(s, k, k) = c
    THEN CHOOSE k \in 1..Len(s) : SubSeq(s, k, k) = c
    ELSE 0

\* String.prototype.toLowerCase
RECURSIVE ToLowerCase(_)
ToLowerCase(s) ==
    IF Len(s) = 0 THEN s
    ELSE LET c == SubSeq(s, 1, 1)
             k == CharIndex(UpperCaseLetters, c)
         IN  (IF k = 0 THEN c ELSE SubSeq(LowerCaseLetters, k, k))
                 \o ToLowerCase(SubSeq(s, 2, Len(s)))

KeepChars(s, chars) == s

\* s.replace(/[chars]/g, '')
RECURSIVE RemoveChars(_, _)
RemoveChars(s, chars) ==
    IF Len(s) = 0 THEN s
    ELSE (IF SubSeq(s, 1, 1) \in chars THEN "" ELSE SubSeq(s, 1, 1))
             \o RemoveChars(SubSeq(s, 2, Len(s)), chars)

\* String.prototype.includes, String.prototype.startsWith
Includes(s, part) ==
    \E k \in 1..(Len(s) - Len(part) + 1) : SubSeq(s, k, k + Len(part) - 1) = part
StartsWith(s, prefix) ==
    Len(s) >= Len(prefix) /\ SubSeq(s, 1, Len(prefix)) = prefix

\* part_000 81-89
BasicPunctuation == {".", ","}
BasicNoIssue ==
    {"none", "na", "n/a", "null", "safe", "no safety issues", "no safety hazards"}
isSafetyCriticalBasic(text) ==
    IF Falsy(text) THEN FALSE
    ELSE LET lower == RemoveChars(Trim(ToLowerCase(text.str)), BasicPunctuation)
         IN  IF lower \in BasicNoIssue THEN FALSE
             ELSE IF Len(lower) < 3 THEN FALSE
             ELSE TRUE

\* part_001 44-76
Punctuation == {".", ",", "-", ":", ";"}
NonRiskIndicators == {"none", "n/a", "na", "null", "nil", "-", "."}
noRiskPhrases ==
    {"no safety issues", "no safety hazards", "no hazards detected",
     "no specific safety protocols", "none required", "not applicable",
     "safe to proceed", "standard precautions", "standard safety protocols apply"}
isSafetyCritical(text) ==
    IF Falsy(text) THEN FALSE
    ELSE LET lower == Trim(ToLowerCase(text.str))
             cleanText == RemoveChars(lower, Punctuation)
         IN  IF lower \in NonRiskIndicators THEN FALSE
             ELSE IF \E phrase \in noRiskPhrases :
                        Includes(cleanText, RemoveChars(phrase, Punctuation))
                  THEN FALSE
             ELSE IF StartsWith(lower, "no safety") \/ StartsWith(lower, "none")
                  THEN FALSE
             ELSE IF Len(cleanText) < 5 THEN FALSE
             ELSE TRUE

(***************************************************************************)
(* State of the App component (useState), the clock, and the calls in      *)
(* flight with the values their closures captured.                         *)
(***************************************************************************)
VARIABLES
    selectedField,    \* EngineeringField
    query,            \* string
    isSolving,        \* boolean
    isGeneratingBOM,  \* boolean
    solution,         \* ProblemSolution | null
    history,          \* ProblemSolution[], most recent first
    imagePreview,     \* string | null
    error,            \* string | null
    activeTab,        \* 'solver' | 'history'
    language,         \* 'en' | 'sw'
    now,              \* Date.now()
    solveCalls,       \* suspended handleSolve invocations, in issue order
    bomCalls,         \* suspended handleGenerateBOM invocations
    last              \* the handler step taken last (observation only)

vars == <<selectedField, query, isSolving, isGeneratingBOM, solution, history,
          imagePreview, error, activeTab, language, now, solveCalls, bomCalls, last>>

inputVars == <<selectedField, query, imagePreview>>
solveVars == <<isSolving, error, solution, solveCalls>>

NoEvent == [op |-> "none"]

RemoveAt(s, i) == SubSeq(s, 1, i - 1) \o SubSeq(s, i + 1, Len(s))

\* useState initial values
Init ==
    /\ selectedField = "Mechanical"
    /\ query = ""
    /\ isSolving = FALSE
    /\ isGeneratingBOM = FALSE
    /\ solution = null
    /\ history = << >>
    /\ imagePreview = null
    /\ error = null
    /\ activeTab = "solver"
    /\ language = "en"
    /\ now = 1
    /\ solveCalls = << >>
    /\ bomCalls = << >>
    /\ last = NoEvent

(***************************************************************************)
(* handleSolve, up to its await.  forceLang is undefined or Str(lang).     *)
(***************************************************************************)
SolveRejectsQueryUntrimmed(q) == Falsy(Str(q))

\* if (!query.trim()) return;
SolveRejectsQuery(q) == Falsy(Str(Trim(q)))

\* the arguments of solveEngineeringProblem, which the continuation's closure
\* also holds (query, selectedField, imagePreview of the calling render);
\* `aged` tells that the clock has advanced since the call was issued: the
\* service never answers within the millisecond of the request
SolveCall(forceLang) ==
    [query |-> query,
     field |-> selectedField,
     image |-> OrElse(imagePreview, undefined),
     language |-> OrElse(forceLang, Str(language)).str,
     aged |-> FALSE]

handleSolveKeepingResult(forceLang) ==
    IF SolveRejectsQuery(query)
    THEN /\ UNCHANGED solveVars
         /\ last' = [op |-> "handleSolve", issued |-> FALSE]
    ELSE /\ Len(history) + Len(solveCalls) < MaxHistory
         /\ isSolving' = TRUE
         /\ error' = null
         /\ UNCHANGED solution
         /\ solveCalls' = Append(solveCalls, SolveCall(forceLang))
         /\ last' = [op |-> "handleSolve", issued |-> TRUE]

handleSolve(forceLang) ==
    IF SolveRejectsQuery(query)
    THEN /\ UNCHANGED solveVars
         /\ last' = [op |-> "handleSolve", issued |-> FALSE]
    ELSE /\ Len(history) + Len(solveCalls) < MaxHistory
         /\ isSolving' = TRUE
         /\ error' = null
         /\ solution' = null
         /\ solveCalls' = Append(solveCalls, SolveCall(forceLang))
         /\ last' = [op |-> "handleSolve", issued |-> TRUE]

\* <button type="submit" disabled={isSolving || !query.trim()}>
SubmitDisabled == isSolving \/ Falsy(Str(Trim(query)))

Submit ==
    /\ activeTab = "solver"
    /\ ~SubmitDisabled
    /\ handleSolve(undefined)
    /\ UNCHANGED <<inputVars, isGeneratingBOM, history, activeTab, language, now, bomCalls>>

\* toggleLanguage: the header button is never disabled
toggleLanguage ==
    LET nextLang == IF language = "en" THEN "sw" ELSE "en"
    IN  /\ language' = nextLang
        /\ IF solution # null
           THEN handleSolve(Str(nextLang))
           ELSE /\ UNCHANGED solveVars
                /\ last' = [op |-> "toggleLanguage"]
        /\ UNCHANGED <<inputVars, isGeneratingBOM, history, activeTab, now, bomCalls>>

(***************************************************************************)
(* handleSolve, from the await on: the call settles with `outcome`.        *)
(***************************************************************************)
NewSolution(call, result, t) ==
    Spread([id |-> Str(ToString(t)),
            timestamp |-> Num(t),
            field |-> Str(call.field),
            query |-> Str(call.query),
            image |-> call.image],
           result)

RecordSolutionAtEnd(prev, newSolution) == Append(prev, newSolution)

\* setHistory(prev => [newSolution, ...prev])
RecordSolution(prev, newSolution) == <<newSolution>> \o prev

\* observation: the call answered now was issued before the call whose
\* successful answer was handled in the step just before
AnsweredLate(i) == last.op = "solveSettled" /\ last.ok /\ i < last.index

SolveSettleRetrying(i, outcome) ==
    LET call == solveCalls[i]
        r == solveEngineeringProblem(outcome)
    IN  /\ call.aged
        /\ IF r.ok
           THEN /\ solution' = NewSolution(call, r.value, now)
                /\ history' = RecordSolution(history, NewSolution(call, r.value, now))
                /\ UNCHANGED error
           ELSE /\ error' = OrElse(Str(r.message), Str(MsgSolveFallback))
                /\ UNCHANGED <<solution, history>>
        /\ isSolving' = ~r.ok
        /\ solveCalls' = IF r.ok THEN RemoveAt(solveCalls, i)
                       ELSE Append(RemoveAt(solveCalls, i), [call EXCEPT !.aged = FALSE])
        /\ last' = [op |-> "solveSettled", outcome |-> outcome, ok |-> r.ok,
                    index |-> i, stale |-> AnsweredLate(i)]
        /\ UNCHANGED <<inputVars, isGeneratingBOM, activeTab, language, now, bomCalls>>

SolveSettleLatestOnly(i, outcome) ==
    LET call == solveCalls[i]
        r == solveEngineeringProblem(outcome)
    IN  /\ call.aged
        /\ IF r.ok /\ i = Len(solveCalls)
           THEN /\ solution' = NewSolution(call, r.value, now)
                /\ history' = RecordSolution(history, NewSolution(call, r.value, now))
                /\ UNCHANGED error
           ELSE /\ error' = IF r.ok THEN error
                               ELSE OrElse(Str(r.message), Str(MsgSolveFallback))
                /\ UNCHANGED <<solution, history>>
        /\ isSolving' = FALSE
        /\ solveCalls' = RemoveAt(solveCalls, i)
        /\ last' = [op |-> "solveSettled", outcome |-> outcome, ok |-> r.ok,
                    index |-> i, stale |-> AnsweredLate(i)]
        /\ UNCHANGED <<inputVars, isGeneratingBOM, activeTab, language, now, bomCalls>>

SolveSettle(i, outcome) ==
    LET call == solveCalls[i]
        r == solveEngineeringProblem(outcome)
    IN  /\ call.aged
        /\ IF r.ok
           THEN /\ solution' = NewSolution(call, r.value, now)
                /\ history' = RecordSolution(history, NewSolution(call, r.value, now))
                /\ UNCHANGED error
           ELSE /\ error' = OrElse(Str(r.message), Str(MsgSolveFallback))
                /\ UNCHANGED <<solution, history>>
        /\ isSolving' = FALSE
        /\ solveCalls' = RemoveAt(solveCalls, i)
        /\ last' = [op |-> "solveSettled", outcome |-> outcome, ok |-> r.ok,
                    index |-> i, stale |-> AnsweredLate(i)]
        /\ UNCHANGED <<inputVars, isGeneratingBOM, activeTab, language, now, bomCalls>>

(***************************************************************************)
(* handleGenerateBOM.                                                      *)
(***************************************************************************)
\* the button is rendered in the solver tab while the current record has no
\* billOfMaterials, and is disabled while isGeneratingBOM
BomButtonEnabled ==
    /\ activeTab = "solver"
    /\ solution # null
    /\ Falsy(Get(solution, "billOfMaterials"))
    /\ ~isGeneratingBOM

\* if (!solution || isGeneratingBOM) return;
BomIgnored == solution = null \/ isGeneratingBOM

handleGenerateBOM ==
    IF BomIgnored
    THEN /\ UNCHANGED <<isGeneratingBOM, bomCalls>>
         /\ last' = [op |-> "handleGenerateBOM", issued |-> FALSE]
    ELSE /\ isGeneratingBOM' = TRUE
         /\ bomCalls' = Append(bomCalls, [solution |-> solution, language |-> language,
                                          aged |-> FALSE])
         /\ last' = [op |-> "handleGenerateBOM", issued |-> TRUE]

GenerateBOM ==
    /\ BomButtonEnabled
    /\ handleGenerateBOM
    /\ UNCHANGED <<inputVars, isSolving, solution, history, error, activeTab,
                   language, now, solveCalls>>

\* setSolution(updatedSolution): whatever the current result is by then
BomCurrent(current, target, updated) == updated

BomMergeSkipped(prev, target, updated) == prev

BomMergeIntoCurrent(prev, target, updated) ==
    [k \in 1..Len(prev) |->
        IF solution # null /\ Get(prev[k], "id") = Get(solution, "id")
        THEN Spread(prev[k], [billOfMaterials |-> updated.billOfMaterials])
        ELSE prev[k]]

BomMergeToFront(prev, target, updated) ==
    <<updated>> \o SelectSeq(prev, LAMBDA item : Get(item, "id") # Get(target, "id"))

BomMergeAll(prev, target, updated) == [k \in 1..Len(prev) |-> updated]

\* prev.map(item => item.id === solution.id ? updatedSolution : item)
BomMerge(prev, target, updated) ==
    [k \in 1..Len(prev) |->
        IF Get(prev[k], "id") = Get(target, "id") THEN updated ELSE prev[k]]

BomSettle(i, outcome) ==
    LET call == bomCalls[i]
        r == extractBOM(outcome)
        updatedSolution == Spread(call.solution, [billOfMaterials |-> r.value])
    IN  /\ call.aged
        /\ IF r.ok
           THEN /\ solution' = BomCurrent(solution, call.solution, updatedSolution)
                /\ history' = BomMerge(history, call.solution, updatedSolution)
                /\ UNCHANGED error
           ELSE /\ error' = OrElse(Str(r.message), Str(MsgBomFallback))
                /\ UNCHANGED <<solution, history>>
        /\ isGeneratingBOM' = FALSE
        /\ bomCalls' = RemoveAt(bomCalls, i)
        /\ last' = [op |-> "bomSettled", outcome |-> outcome, ok |-> r.ok]
        /\ UNCHANGED <<inputVars, isSolving, activeTab, language, now, solveCalls>>

(***************************************************************************)
(* The remaining controls.                                                 *)
(***************************************************************************)
SelectHistoryKeepingImage(i) ==
    /\ activeTab = "history"
    /\ solution' = history[i]
    /\ selectedField' = history[i].field.str
    /\ query' = history[i].query.str
    /\ UNCHANGED imagePreview
    /\ activeTab' = "solver"
    /\ last' = [op |-> "selectHistory"]
    /\ UNCHANGED <<isSolving, isGeneratingBOM, history, error, language, now,
                   solveCalls, bomCalls>>

\* history entry onClick
SelectHistory(i) ==
    /\ activeTab = "history"
    /\ solution' = history[i]
    /\ selectedField' = history[i].field.str
    /\ query' = history[i].query.str
    /\ imagePreview' = OrElse(history[i].image, null)
    /\ activeTab' = "solver"
    /\ last' = [op |-> "selectHistory"]
    /\ UNCHANGED <<isSolving, isGeneratingBOM, history, error, language, now,
                   solveCalls, bomCalls>>

\* textarea onChange
SetQuery(q) ==
    /\ activeTab = "solver"
    /\ query' = q
    /\ last' = NoEvent
    /\ UNCHANGED <<selectedField, isSolving, isGeneratingBOM, solution, history,
                   imagePreview, error, activeTab, language, now, solveCalls, bomCalls>>

\* discipline button onClick
SetSelectedField(f) ==
    /\ activeTab = "solver"
    /\ selectedField' = f
    /\ last' = NoEvent
    /\ UNCHANGED <<query, isSolving, isGeneratingBOM, solution, history,
                   imagePreview, error, activeTab, language, now, solveCalls, bomCalls>>

\* handleImageUpload's onloadend, and the attachment's remove button
SetImagePreview(img) ==
    /\ activeTab = "solver"
    /\ imagePreview' = img
    /\ last' = NoEvent
    /\ UNCHANGED <<selectedField, query, isSolving, isGeneratingBOM, solution, history,
                   error, activeTab, language, now, solveCalls, bomCalls>>

\* the two tab buttons of the header
SetActiveTab(t) ==
    /\ activeTab' = t
    /\ last' = NoEvent
    /\ UNCHANGED <<inputVars, isSolving, isGeneratingBOM, solution, history, error,
                   language, now, solveCalls, bomCalls>>

\* a millisecond passes: the calls in flight may be answered from now on
Tick ==
    /\ now < MaxClock
    /\ now' = now + 1
    /\ solveCalls' = [k \in 1..Len(solveCalls) |-> [solveCalls[k] EXCEPT !.aged = TRUE]]
    /\ bomCalls' = [k \in 1..Len(bomCalls) |-> [bomCalls[k] EXCEPT !.aged = TRUE]]
    /\ last' = NoEvent
    /\ UNCHANGED <<inputVars, isSolving, isGeneratingBOM, solution, history, error,
                   activeTab, language>>

(***************************************************************************)
(* The next-state relation, for an environment: the texts and disciplines  *)
(* the user enters, the images the file reader delivers, and what the      *)
(* completion service does with a solve call and with a BOM call.          *)
(***************************************************************************)
NextIn(queries, fields, images, solveOutcomes, bomOutcomes) ==
    \/ Submit
    \/ toggleLanguage
    \/ \E i \in 1..Len(solveCalls), o \in solveOutcomes : SolveSettle(i, o)
    \/ GenerateBOM
    \/ \E i \in 1..Len(bomCalls), o \in bomOutcomes : BomSettle(i, o)
    \/ \E i \in 1..Len(history) : SelectHistory(i)
    \/ \E q \in queries : SetQuery(q)
    \/ \E f \in fields : SetSelectedField(f)
    \/ \E img \in images : SetImagePreview(img)
    \/ \E t \in {"solver", "history"} : SetActiveTab(t)
    \/ Tick

\* Interleavings of solves, BOM calls, toggles and history selections, with
\* one description (or a blank one) and one discipline, and a service that
\* answers well or throws.
Next ==
    NextIn({"", " \n", "pump"}, {"Mechanical"}, {null},
           {Thrown, Response(Str(TextSolution))},
           {Thrown, Response(Str(TextBomOne))})

Spec == Init /\ [][Next]_vars

\* A service that throws or answers with a malformed text, or with a
\* well-formed text of another shape than the one asked for: a solution that
\* has properties named like the request's, a BOM envelope without its list.
NextDecode ==
    NextIn({"pump"}, {"Mechanical"}, {null},
           {Thrown, Response(Str(TextInvalid)), Response(Str(TextSolutionEcho))},
           {Thrown, Response(Str(TextInvalid)), Response(Str(TextEmptyObject)),
            Response(Str(TextBomOne))})

SpecDecode == Init /\ [][NextDecode]_vars

\* A service that answers well, throws, or answers with a malformed text.
NextFailures ==
    NextIn({"pump"}, {"Mechanical"}, {null},
           {Thrown, Response(Str(TextInvalid)), Response(Str(TextSolution))},
           {Thrown, Response(Str(TextInvalid)), Response(Str(TextBomOne))})

SpecFailures == Init /\ [][NextFailures]_vars

\* A service whose answers are complete solutions, some with a confidence
\* above 1.
NextShape ==
    NextIn({"pump"}, {"Mechanical"}, {null},
           {Response(Str(TextSolution)), Response(Str(TextSolutionOverconfident))},
           {Response(Str(TextBomOne))})

SpecShape == Init /\ [][NextShape]_vars

\* A user who solves two different descriptions, with a service that always
\* answers well.
NextInputs ==
    NextIn({"pump", "fan"}, {"Mechanical"}, {null},
           {Response(Str(TextSolution))},
           {Response(Str(TextBomOne))})

SpecInputs == Init /\ [][NextInputs]_vars

\* A service whose responses carry no text, an empty text or a malformed one.
NotJSON == {Response(undefined), Response(Str("")), Response(Str(TextInvalid))}

NextNoText == NextIn({"pump"}, {"Mechanical"}, {null}, NotJSON, NotJSON)

SpecNoText == Init /\ [][NextNoText]_vars

\* Every call is answered: time passes, and a call that can be answered is
\* answered, well or not.  The user starts no call in the last millisecond
\* of the clock, so that every call started can age.
NextAnswered ==
    /\ NextIn({"pump"}, {"Mechanical"}, {null},
              {Thrown, Response(Str(TextSolution))},
              {Thrown, Response(Str(TextBomOne))})
    /\ (Len(solveCalls') > Len(solveCalls) \/ Len(bomCalls') > Len(bomCalls)) =>
            now < MaxClock

SpecAnswered ==
    /\ Init
    /\ [][NextAnswered]_vars
    /\ WF_vars(Tick)
    /\ WF_vars(\E i \in 1..Len(solveCalls) :
                    \E o \in {Thrown, Response(Str(TextSolution))} : SolveSettle(i, o))
    /\ WF_vars(\E i \in 1..Len(bomCalls) :
                    \E o \in {Thrown, Response(Str(TextBomOne))} : BomSettle(i, o))

\* A user who attaches an image to the description at some point, and a
\* service that always answers well.
NextAttachments ==
    NextIn({"pump"}, {"Mechanical"}, {Str("data:image/png;base64,AA==")},
           {Response(Str(TextSolution))},
           {Response(Str(TextBomOne))})

SpecAttachments == Init /\ [][NextAttachments]_vars

(***************************************************************************)
(* The safety banner.  The solver tab renders it for the current result    *)
(* when isSafetyCritical(solution.safetyCheck); the texts below are what a *)
(* response may carry as safetyCheck: nothing, the empty text, the words   *)
(* that stand for "no risk" in either variant in several spellings, and a  *)
(* hazard notice.                                                          *)
(***************************************************************************)
HazardNotice == "Disconnect main breaker before servicing " \o EmDash \o " 415V present"

NoRiskWords ==
    {"none", "n/a", "na", "null", "nil", "-", ".", "safe", "no safety issues",
     "no safety hazards"}

RECURSIVE ToUpperCase(_)
ToUpperCase(s) ==
    IF Len(s) = 0 THEN s
    ELSE LET c == SubSeq(s, 1, 1)
             k == CharIndex(LowerCaseLetters, c)
         IN  (IF k = 0 THEN c ELSE SubSeq(UpperCaseLetters, k, k))
                 \o ToUpperCase(SubSeq(s, 2, Len(s)))

Capitalized(s) == ToUpperCase(SubSeq(s, 1, 1)) \o SubSeq(s, 2, Len(s))

Spellings(word) ==
    {lead \o cased \o mark \o trail :
        lead \in {"", " "},
        cased \in {word, Capitalized(word), ToUpperCase(word)},
        mark \in {"", ".", ",", ":", ";", "-"},
        trail \in {"", "\n"}}

\* hazard instructions that begin like a placeholder or sit next to a benign
\* phrase
HazardBehindNone == "None of the guards are fitted: lock out the drive before entry"
HazardBehindNoSafety == "No safety valve is fitted: risk of overpressure, vent before opening"
HazardBesidePhrase == "Standard precautions, and isolate the 415V supply before opening the panel"

GenuineHazards ==
    {HazardNotice, HazardBehindNone, HazardBehindNoSafety, HazardBesidePhrase}

SafetyChecks ==
    {undefined, Str("")}
        \cup {Str(t) : t \in GenuineHazards}
        \cup {Str(t) : t \in UNION {Spellings(w) : w \in NoRiskWords}}

\* the record of a solve whose response carried safetyCheck s (or none)
SafetySolution(s) ==
    NewSolution([query |-> "pump", field |-> "Mechanical", image |-> undefined],
                IF s = undefined THEN JSONParse(TextSolution)
                ELSE Spread(JSONParse(TextSolution), [safetyCheck |-> s]),
                2)

\* the state once the first solve has been answered with such a response
InitSafety ==
    \E s \in SafetyChecks :
        /\ selectedField = "Mechanical"
        /\ query = "pump"
        /\ isSolving = FALSE
        /\ isGeneratingBOM = FALSE
        /\ solution = SafetySolution(s)
        /\ history = <<SafetySolution(s)>>
        /\ imagePreview = null
        /\ error = null
        /\ activeTab = "solver"
        /\ language = "en"
        /\ now = 2
        /\ solveCalls = << >>
        /\ bomCalls = << >>
        /\ last = NoEvent

\* {isSafetyCritical(solution.safetyCheck) && (...)}, as either variant of the
\* component evaluates it when it renders the solver tab
RenderSafetyBanner ==
    /\ activeTab = "solver"
    /\ solution # null
    /\ last' = [op |-> "render",
                text |-> Get(solution, "safetyCheck"),
                critical |-> isSafetyCritical(Get(solution, "safetyCheck")),
                criticalBasic |-> isSafetyCriticalBasic(Get(solution, "safetyCheck"))]
    /\ UNCHANGED <<inputVars, isSolving, isGeneratingBOM, solution, history, error,
                   activeTab, language, now, solveCalls, bomCalls>>

NextSafety == RenderSafetyBanner

SpecSafety == InitSafety /\ [][NextSafety]_vars

(***************************************************************************)
(* Properties.  A step is recognised by what it leaves in `last`; the call *)
(* a settle step resumes is the one it removes from the calls in flight.   *)
(***************************************************************************)
SolveSettles(i) ==
    /\ last'.op = "solveSettled"
    /\ i \in 1..Len(solveCalls)
    /\ solveCalls' = RemoveAt(solveCalls, i)

BomSettles(i) ==
    /\ last'.op = "bomSettled"
    /\ i \in 1..Len(bomCalls)
    /\ bomCalls' = RemoveAt(bomCalls, i)

BomTexts == {Response(Str(TextBomOne)), Response(Str(TextEmptyObject)), Response(undefined)}

SameId(a, b) == Get(a, "id") = Get(b, "id")

\* C1: when a BOM call answered with a well-formed BOM text settles for
\* record X, the history keeps its length and every entry whose id differs
\* from X's id is unchanged, at its place.
C1_BomMergeFrame ==
    [][\A i \in 1..Len(bomCalls) :
         (BomSettles(i) /\ last'.outcome \in BomTexts) =>
            /\ Len(history') = Len(history)
            /\ \A k \in 1..Len(history) :
                 ~SameId(history[k], bomCalls[i].solution) => history'[k] = history[k]
      ]_vars

\* a BOM call has just been merged into a history that also holds a record
\* of another id, while a solve issued in the meantime is still in flight
C1_Witness ==
    /\ last.op = "bomSettled" /\ last.ok
    /\ solveCalls # << >>
    /\ \E j, k \in 1..Len(history) :
         /\ "billOfMaterials" \in DOMAIN history[k]
         /\ SameId(history[k], solution)
         /\ ~SameId(history[j], history[k])
         /\ "billOfMaterials" \notin DOMAIN history[j]

\* C2: when a BOM call settles successfully for record X, the current result
\* is left as it is unless it references X's id.
C2_CurrentKeptUnlessSameId ==
    [][\A i \in 1..Len(bomCalls) :
         (BomSettles(i) /\ last'.ok
            /\ (solution = null \/ ~SameId(solution, bomCalls[i].solution)))
         => solution' = solution
      ]_vars

\* C3: never two solve calls and never two BOM calls outstanding together.
C3_OneCallPerKind == Len(solveCalls) <= 1 /\ Len(bomCalls) <= 1

\* C4: when the service answers a solve call or a BOM call with a text that
\* is not JSON, the caller is given the decode error, not the connection error
\* of a failed call.
C4_DecodeErrorReachesCaller ==
    /\ (last.op = "solveSettled" /\ last.outcome = Response(Str(TextInvalid))) =>
          (~last.ok /\ error = Str(MsgSolveCorrupted) /\ error # Str(MsgSolveConnection))
    /\ (last.op = "bomSettled" /\ last.outcome = Response(Str(TextInvalid))) =>
          (~last.ok /\ error = Str(MsgBomParse) /\ error # Str(MsgBomConnection))

\* C5: when the service answers a BOM call with JSON that has no bom
\* property, extractBOM fails, and neither the current result nor the history
\* is given a billOfMaterials.
C5_MissingBomFails ==
    [][\A i \in 1..Len(bomCalls) :
         (BomSettles(i) /\ last'.outcome = Response(Str(TextEmptyObject))) =>
            /\ ~last'.ok
            /\ error' # null
            /\ solution' = solution
            /\ history' = history
      ]_vars

\* C6: when the service call of a solve throws, the handler reports the one
\* connection error and the history is what it was.
C6_SolveThrowKeepsHistory ==
    [][\A i \in 1..Len(solveCalls) :
         (SolveSettles(i) /\ last'.outcome = Thrown) =>
            /\ ~last'.ok
            /\ error' = Str(MsgSolveConnection)
            /\ history' = history
            /\ Len(solveCalls') = Len(solveCalls) - 1
      ]_vars

\* a solve has just failed on a throwing service, with records in the history
C6_Witness ==
    /\ last.op = "solveSettled" /\ last.outcome = Thrown
    /\ history # << >>
    /\ error = Str(MsgSolveConnection)

\* C7: handleSolve on an empty or whitespace-only description issues no call
\* and leaves isSolving, error, the current result and the history alone.
C7_BlankQueryNoOp ==
    [][(last'.op = "handleSolve" /\ Trim(query) = "") =>
            /\ ~last'.issued
            /\ UNCHANGED <<isSolving, error, solution, history, solveCalls, bomCalls>>
      ]_vars

\* the language was toggled with a current result on screen and a description
\* of white space only
C7_Witness ==
    /\ last.op = "handleSolve"
    /\ query # "" /\ Trim(query) = ""
    /\ solution # null
    /\ language = "sw"

\* C8: a successful solve puts its record at the front of the history, before
\* the records already there, and makes it the current result.
C8_SolvePrepends ==
    [][\A i \in 1..Len(solveCalls) :
         (SolveSettles(i) /\ last'.outcome = Response(Str(TextSolution))) =>
            /\ Len(history') = Len(history) + 1
            /\ Tail(history') = history
            /\ solution' = Head(history')
            /\ Head(history').timestamp = Num(now)
      ]_vars

\* B was recorded after A: B is first and current, A second
C8_Witness ==
    /\ last.op = "solveSettled" /\ last.ok
    /\ Len(history) = 2
    /\ solution = history[1]
    /\ history[1].timestamp.num > history[2].timestamp.num

\* C9: no two records of the history have the same id.
C9_UniqueIds ==
    \A j, k \in 1..Len(history) : j # k => ~SameId(history[j], history[k])

\* C10: the record of a successful solve has the discipline and the
\* description that were sent in the request, whatever the decoded response.
C10_RecordEchoesRequest ==
    [][\A i \in 1..Len(solveCalls) :
         (SolveSettles(i) /\ last'.ok) =>
            /\ Head(history').field = Str(solveCalls[i].field)
            /\ Head(history').query = Str(solveCalls[i].query)
      ]_vars

\* two records agree on every property but billOfMaterials
SameButBom(a, b) ==
    \A key \in ((DOMAIN a) \cup (DOMAIN b)) \ {"billOfMaterials"} :
        Get(a, key) = Get(b, key)

\* C11: a record that is in the history keeps every field but billOfMaterials:
\* after any step the history still holds it, as far from the end as before,
\* and it differs from what it was in billOfMaterials at most.
C11_RecordFieldsFrozen ==
    [][/\ Len(history') >= Len(history)
       /\ \A k \in 1..Len(history) :
            SameButBom(history[k], history'[k + Len(history') - Len(history)])]_vars

\* C12: the history is append-only: a step either leaves it as long as it was,
\* with the record of the same id at every position, or puts exactly one
\* record in front of the records it held, which stay in their order.
C12_HistoryAppendOnly ==
    [][\/ /\ Len(history') = Len(history)
          /\ \A k \in 1..Len(history) : SameId(history'[k], history[k])
       \/ /\ Len(history') = Len(history) + 1
          /\ Tail(history') = history]_vars

\* a BOM was merged into the second of two records, behind one added later
C12_Witness ==
    /\ last.op = "bomSettled"
    /\ last.ok
    /\ Len(history) >= 2
    /\ "billOfMaterials" \in DOMAIN history[2]
    /\ "billOfMaterials" \notin DOMAIN history[1]
    /\ history[1].timestamp.num > history[2].timestamp.num

SameRequest(a, b) ==
    /\ a.query = b.query
    /\ a.field = b.field
    /\ a.image = b.image
    /\ a.language = b.language

\* C13: no step but its own settling takes a solve call out of flight, and
\* whichever call is answered well, the latest or an older one, its record
\* becomes the current result and the front of the history.
C13_OlderAnswerStillApplied ==
    [][/\ last'.op # "solveSettled" =>
            \A k \in 1..Len(solveCalls) :
                k <= Len(solveCalls') /\ SameRequest(solveCalls'[k], solveCalls[k])
       /\ \A i \in 1..Len(solveCalls) :
            (SolveSettles(i) /\ last'.outcome = Response(Str(TextSolution))) =>
                /\ solution' = NewSolution(solveCalls[i], JSONParse(TextSolution), now)
                /\ history' = <<solution'>> \o history]_vars

\* the answer to a later request was handled first, and the answer to the
\* older request has now replaced it as the current result
C13_Witness ==
    /\ last.op = "solveSettled"
    /\ last.ok
    /\ last.stale
    /\ Len(history) >= 2
    /\ solution = history[1]

BomFailures == {Thrown, Response(Str(TextInvalid))}

\* C14: when a BOM call fails, because the service throws or because its text
\* is not JSON, the step that handles the failure leaves the current result
\* and the history as they were (no billOfMaterials is stored) and changes the
\* error message and isGeneratingBOM only.
C14_BomFailureKeepsResults ==
    [][\A i \in 1..Len(bomCalls) :
        (BomSettles(i) /\ last'.outcome \in BomFailures) =>
            /\ solution' = solution
            /\ history' = history
            /\ error' # null
            /\ isGeneratingBOM' = FALSE
            /\ UNCHANGED <<inputVars, isSolving, activeTab, language, solveCalls>>]_vars

\* a malformed BOM text was handled while a record without a BOM is current
C14_Witness ==
    /\ last.op = "bomSettled"
    /\ last.outcome = Response(Str(TextInvalid))
    /\ error # null
    /\ ~isGeneratingBOM
    /\ solution # null
    /\ "billOfMaterials" \notin DOMAIN solution
    /\ \E k \in 1..Len(history) : history[k] = solution

SolveFailures == {Thrown, Response(Str(TextInvalid))}

\* C15 as stated: once the failure of a solve call has been handled, nothing
\* was added to the history, the error message is set and the current result
\* is null.
C15_FailedSolveLeavesNoResult ==
    [][\A i \in 1..Len(solveCalls) :
        (SolveSettles(i) /\ last'.outcome \in SolveFailures) =>
            /\ history' = history
            /\ error' # null
            /\ solution' = null]_vars

\* C15, amended: issuing a solve call clears the current result; the step that
\* handles the call's failure adds nothing to the history, sets the error
\* message and leaves the current result as it is by then.
C15_FailedSolveStoresNothing ==
    [][/\ (last'.op = "handleSolve" /\ last'.issued) => solution' = null
       /\ \A i \in 1..Len(solveCalls) :
            (SolveSettles(i) /\ last'.outcome \in SolveFailures) =>
                /\ history' = history
                /\ error' # null
                /\ solution' = solution]_vars

\* the only solve call in flight has failed, and the record that became
\* current while it was in flight (a history entry the user selected, say) is
\* still the current result
C15_Witness ==
    /\ last.op = "solveSettled"
    /\ last.outcome \in SolveFailures
    /\ error # null
    /\ solution # null
    /\ solveCalls = << >>
    /\ bomCalls = << >>
    /\ Len(history) = 1

\* C16: a language toggle switches between "en" and "sw", and when there is a
\* current result it issues exactly one solve call, in the new language, for
\* the current record's query and field.
C16_ToggleResolvesLastQuery ==
    [][language' # language =>
        /\ language' = (IF language = "en" THEN "sw" ELSE "en")
        /\ solution # null =>
             /\ last'.op = "handleSolve"
             /\ last'.issued
             /\ Len(solveCalls') = Len(solveCalls) + 1
             /\ solveCalls'[Len(solveCalls')].language = language'
             /\ Str(solveCalls'[Len(solveCalls')].query) = solution.query
             /\ Str(solveCalls'[Len(solveCalls')].field) = solution.field]_vars

\* C17: a step puts at most one call in flight, and only a step of
\* handleSolve (a submit or a toggle) or of handleGenerateBOM does; the step
\* that handles a failed call takes that call out of flight and puts none in.
C17_OneCallNoRetry ==
    [][/\ Len(solveCalls') + Len(bomCalls') <= Len(solveCalls) + Len(bomCalls) + 1
       /\ Len(solveCalls') > Len(solveCalls) => (last'.op = "handleSolve" /\ last'.issued)
       /\ Len(bomCalls') > Len(bomCalls) => (last'.op = "handleGenerateBOM" /\ last'.issued)
       /\ (last'.op = "solveSettled" /\ last'.outcome \in SolveFailures) =>
            /\ \E i \in 1..Len(solveCalls) : solveCalls' = RemoveAt(solveCalls, i)
            /\ bomCalls' = bomCalls
       /\ (last'.op = "bomSettled" /\ last'.outcome \in BomFailures) =>
            /\ \E i \in 1..Len(bomCalls) : bomCalls' = RemoveAt(bomCalls, i)
            /\ solveCalls' = solveCalls]_vars

\* the failure of the only call in flight has been handled: none is in flight
C17_Witness ==
    /\ last.op = "solveSettled"
    /\ last.outcome \in SolveFailures
    /\ error # null
    /\ ~isSolving
    /\ solveCalls = << >>
    /\ bomCalls = << >>

RequiredFields == {"analysis", "steps", "variables", "confidence"}

\* the text is JSON, and the value it denotes lacks a required property
LacksRequiredField(text) ==
    JSONValid(text) /\ ~(RequiredFields \subseteq DOMAIN JSONParse(text))

\* C18: a solve response whose text is JSON but lacks analysis, steps,
\* variables or confidence is handled as a failure: the error message is set,
\* and the current result and the history stay as they were.
C18_MissingFieldRejected ==
    [][\A i \in 1..Len(solveCalls) :
        (/\ SolveSettles(i)
         /\ last'.outcome # Thrown
         /\ last'.outcome.text # undefined
         /\ LacksRequiredField(last'.outcome.text.str)) =>
            /\ ~last'.ok
            /\ error' # null
            /\ solution' = solution
            /\ history' = history]_vars

ConfidenceInRange(record) ==
    /\ "confidence" \in DOMAIN record
    /\ "num" \in DOMAIN record.confidence
    /\ record.confidence.num >= 0
    /\ record.confidence.num <= 1

\* C19: the current result and every record of the history have a confidence
\* between 0 and 1, and a response with a confidence outside of that range
\* has been handled as a failure.
C19_ConfidenceWithinUnitInterval ==
    /\ solution # null => ConfidenceInRange(solution)
    /\ \A k \in 1..Len(history) : ConfidenceInRange(history[k])
    /\ (last.op = "solveSettled" /\ last.outcome = Response(Str(TextSolutionOverconfident))) =>
            (~last.ok /\ error # null)

NotCriticalExamples == {undefined, Str(""), Str("None."), Str("N/A"), Str("-")}

\* C20: both variants of isSafetyCritical answer false for "None.", "N/A",
\* "-", the empty text and an absent text, and true for the hazard notice
\* "Disconnect main breaker before servicing (em dash) 415V present".
C20_ClassifierExamples ==
    last.op = "render" =>
        /\ last.text \in NotCriticalExamples => (~last.critical /\ ~last.criticalBasic)
        /\ last.text = Str(HazardNotice) => (last.critical /\ last.criticalBasic)

\* the banner condition was evaluated for "None.", where only the removal of
\* the full stop (or the prefix test) tells it from a hazard notice
C20_Witness ==
    /\ last.op = "render"
    /\ last.text = Str("None.")
    /\ ~last.critical
    /\ ~last.criticalBasic

\* C21: a safety text with hazard instructions is classified actionable by
\* the classifier (either variant), also when it begins with "none" or
\* "no safety" or contains a benign phrase such as "standard precautions".
C21_HazardNeverSuppressed ==
    (last.op = "render" /\ last.text \in {Str(t) : t \in GenuineHazards}) =>
        (last.critical /\ last.criticalBasic)

\* C22: selecting a history entry makes it the current result, sets the
\* discipline, the description and the image input to the entry's (no image
\* when the entry has none), puts no call in flight and leaves the history
\* as it was.
C22_SelectionRepopulates ==
    [][last'.op = "selectHistory" =>
        \E i \in 1..Len(history) :
            /\ solution' = history[i]
            /\ Str(selectedField') = history[i].field
            /\ Str(query') = history[i].query
            /\ imagePreview' = (IF Get(history[i], "image") = undefined THEN null
                                ELSE history[i].image)
            /\ history' = history
            /\ solveCalls' = solveCalls
            /\ bomCalls' = bomCalls]_vars

\* an entry solved without an image was selected after a later one had been
\* solved with an image attached: the image input is empty again
C22_Witness ==
    /\ last.op = "selectHistory"
    /\ imagePreview = null
    /\ Get(solution, "image") = undefined
    /\ \E k \in 1..Len(history) : Get(history[k], "image") # undefined

DenyList == {"none", "na", "n/a", "null", "nil", "-", "."}

\* C23: both variants classify as not actionable every token of the denylist
\* in lower case, capitalised or in upper case, with or without white space
\* around it and a full stop, comma, colon, semicolon or hyphen behind it.
C23_DenyListNormalised ==
    (last.op = "render"
        /\ last.text \in {Str(t) : t \in UNION {Spellings(w) : w \in DenyList}}) =>
            (~last.critical /\ ~last.criticalBasic)

\* C24: whenever the text of a response is not valid JSON (malformed, empty
\* or absent), the solve call and the BOM call fail: the step that handles the
\* response sets the error message, creates no record and merges no BOM.
C24_StrictDecoding ==
    [][/\ \A i \in 1..Len(solveCalls) :
            (SolveSettles(i) /\ last'.outcome \in NotJSON) =>
                (~last'.ok /\ error' # null /\ history' = history /\ solution' = solution)
       /\ \A i \in 1..Len(bomCalls) :
            (BomSettles(i) /\ last'.outcome \in NotJSON) =>
                (~last'.ok /\ error' # null /\ history' = history /\ solution' = solution)]_vars

\* C25: whenever there is a current result, the history holds a record equal
\* to it in every property, billOfMaterials included.
C25_CurrentInHistory ==
    solution # null => \E k \in 1..Len(history) : history[k] = solution

\* a BOM call that was issued for an older record has been answered after
\* another record was added: the older record, with its BOM, is current and
\* is the second of the history
C25_Witness ==
    /\ last.op = "bomSettled"
    /\ last.ok
    /\ Len(history) >= 2
    /\ solution = history[2]
    /\ solution # history[1]
    /\ "billOfMaterials" \in DOMAIN solution

\* C26: isSolving is true while a solve call is in flight, and
\* isGeneratingBOM is true while a BOM call is in flight.
C26_FlagsCoverCallsInFlight ==
    /\ solveCalls # << >> => isSolving
    /\ bomCalls # << >> => isGeneratingBOM

\* C27: when a BOM call is answered with a list of items, the history still
\* holds the record the call was issued for, and the step writes the items
\* into that record, whatever the current result is by then and whether or
\* not a solve has been started since.
C27_BomReachesItsRecord ==
    [][\A i \in 1..Len(bomCalls) :
        (BomSettles(i) /\ last'.outcome = Response(Str(TextBomOne))) =>
            /\ \E k \in 1..Len(history) : history[k] = bomCalls[i].solution
            /\ \A k \in 1..Len(history) :
                 history[k] = bomCalls[i].solution =>
                    /\ Get(history'[k], "billOfMaterials") = JSONParse(TextBomOne).bom
                    /\ SameButBom(history'[k], history[k])]_vars

\* the items have been written into the second record of the history while
\* a solve started after the BOM request is still in flight
C27_Witness ==
    /\ last.op = "bomSettled"
    /\ last.ok
    /\ solveCalls # << >>
    /\ Len(history) = 2
    /\ "billOfMaterials" \in DOMAIN history[2]
    /\ "billOfMaterials" \notin DOMAIN history[1]

\* C28: in the state a successful solve leaves, with its record as the
\* current result, the error message is null.
C28_NoErrorAfterSolve ==
    (last.op = "solveSettled" /\ last.ok /\ solution = history[1]) => error = null

\* C29: when every call is answered, a solve that was started leads to a
\* state with no solve call in flight and isSolving false; and the step that
\* handles a solve call's answer either puts one record in front of the
\* history and leaves the error message alone, or sets the error message and
\* leaves the history alone.
C29_SolveTerminates ==
    /\ (solveCalls # << >>) ~> (solveCalls = << >> /\ ~isSolving)
    /\ [][last'.op = "solveSettled" =>
            \/ /\ Len(history') = Len(history) + 1
               /\ Tail(history') = history
               /\ error' = error
            \/ /\ history' = history
               /\ error' = Str(MsgSolveConnection)]_vars

\* a solve started after the first record was added has failed: no call is
\* in flight, isSolving is false, the error message is set and the history
\* is as long as before
C29_Witness ==
    /\ last.op = "solveSettled"
    /\ ~last.ok
    /\ solveCalls = << >>
    /\ ~isSolving
    /\ solution = null
    /\ Len(history) = 1
    /\ error = Str(MsgSolveConnection)

\* C30: the simpler and the extended variant of isSafetyCritical give the
\* same answer for every safety text.
C30_VariantsAgree ==
    last.op = "render" => (last.critical = last.criticalBasic)
====
